---- MODULE Spec2Model ----
(***************************************************************************)
(* Model of the symptom-to-disease matcher of database.py: the SQLite      *)
(* tables of HeartDiagnosisDB, the accessors get_all_diseases and          *)
(* get_rules_for_disease, and diagnose_from_symptoms (scoring of every     *)
(* disease by its best-matching condition group, ranking, and suggestion   *)
(* of further symptoms from the top diagnoses), with its return paths      *)
(* (file not found, no connection, failing queries), calls made one after  *)
(* the other and at the same time on one shared cursor, and the data       *)
(* management operations on diseases, symptoms and rules (add_disease,     *)
(* add_disease_with_description, add_symptom, update_symptom_severity,     *)
(* add_rule, add_rule_condition_group, delete_symptom, delete_disease).    *)
(*                                                                         *)
(* Scores of diagnoses are kept in hundredths (10000 stands for 100.0,     *)
(* 3333 for 33.33); scores of suggested symptoms are whole numbers.        *)
(***************************************************************************)
EXTENDS Integers, Sequences, FiniteSets, TLC

VARIABLES
    diseases,                   \* table diseases: rows [disease_id, name, description]; "NULL" is NULL
    symptoms,                   \* table symptoms: rows [symptom_id, description, severity]; 0 is NULL
    rules,                      \* table rules: rows [rule_id, disease_id]
    condition_groups,           \* table condition_groups: rows [group_id, rule_id]
    condition_group_symptoms,   \* table condition_group_symptoms: rows [group_id, symptom_id]
    disease_actions,            \* table disease_actions: rows [action_id, disease_id, action_text]
    sqlite_sequence,            \* table sqlite_sequence: for each table with an AUTOINCREMENT key the
                                \* largest key it ever handed out (0: no row yet)
    pc,                         \* "ready" before the call of diagnose_from_symptoms, "done" after its return
    reported_symptoms_set,      \* set(reported_symptoms) of the call
    potential_diagnoses,        \* first list returned: <<[name, score]>>
    predicted_symptom_base_counts, \* the dict of base counts: <<[symptom, count]>> in insertion order
    predicted_symptoms_list,    \* second list returned: <<[symptom, score]>>
    best_group,                 \* SpecScore: the best group's [matched count, size] handed to the score expression
    rounded_score,              \* SpecScore: round(score, 2) of best_group, in hundredths
    db_path,                    \* first argument of the call: "object" (a HeartDiagnosisDB), "path" (an
                                \* existing file) or "missing" (a path that names no file)
    conn,                       \* db.conn of the HeartDiagnosisDB the call works on: "open" or "none"
    query_error,                \* "none", or where the queries of the call raise sqlite3.Error: in
                                \* "execute" (file is not a database, locked) or in "fetch" (I/O error)
    returned,                   \* value of the call: "nothing" before it, then "pair" (two lists) or "None";
                                \* of a data management operation: "True", "False", "None", "group_id", "id"
    returned_id,                \* the id a data management operation returned (returned = "id"), else 0
    in_transaction,             \* conn.in_transaction: a transaction is open on the connection
    history,                    \* SpecCalls: what the caller saw so far: [calls, first, last], the number of
                                \* calls, the first call's list and results, the latest call's list
    threads,                    \* SpecThreads: the calls that run at the same time on one HeartDiagnosisDB,
                                \* each with its position and its locals
    cursor                      \* SpecThreads: the rows the shared self.cursor still has to hand out

tables == <<diseases, symptoms, rules, condition_groups, condition_group_symptoms,
            disease_actions, sqlite_sequence>>
vars == <<diseases, symptoms, rules, condition_groups, condition_group_symptoms,
          disease_actions, sqlite_sequence,
          pc, reported_symptoms_set, potential_diagnoses,
          predicted_symptom_base_counts, predicted_symptoms_list,
          best_group, rounded_score, db_path, conn, query_error, returned, returned_id,
          in_transaction, history, threads, cursor>>

----------------------------------------------------------------------------
(* Bounds of the model *)

\* diseases in a store of the specification Spec
MaxDiseases == 2
\* rows of condition_groups plus rows of condition_group_symptoms in a store of Spec
MaxRows == 6
\* length of the list reported_symptoms handed to diagnose_from_symptoms
MaxReported == 2
\* diseases in a store of the specification SpecTop
MaxTopDiseases == 6
\* size of the best group in the specification SpecScore
MaxGroupSize == 16
\* condition groups of one disease in a store of the specification SpecScenario
MaxScenarioGroups == 2
\* rows of condition_groups plus rows of condition_group_symptoms in a store of SpecCall
MaxCallRows == 3
\* calls of diagnose_from_symptoms in a behaviour of the specification SpecCalls
MaxCalls == 3
\* rows of the table rules in a store of the specification SpecStore
MaxStoreRules == 2
\* rows of the table condition_groups in a store of SpecStore
MaxStoreGroups == 2
\* rows of the table rules in a store of the specification SpecRules
MaxRuleRows == 2
\* rows of the table condition_groups in a store of SpecRules
MaxGroupRows == 2
\* groups and names together in a rule structure handed to add_rule in SpecRules
MaxRuleSize == 4
\* names in a list handed to add_rule_condition_group in SpecRules
MaxGroupList == 2
\* the largest severity handed to add_symptom and update_symptom_severity in the
\* specification SpecSymptoms
MaxSeverity == 2
\* keys the table diseases hands out in a behaviour of the specification SpecDiseases
MaxDiseaseKeys == 3
\* rows of the table rules in a store of SpecDiseases
MaxDiseaseRules == 1
\* groups and names together in a rule structure handed to add_rule in SpecDiseases
MaxDiseaseSize == 2
\* rows added to the table rules in a behaviour of the specification SpecData
MaxDataRules == 1
\* rows added to the table condition_groups in a behaviour of SpecData
MaxDataGroups == 1
\* symptoms added again after their deletion in a behaviour of SpecData
MaxDataAdded == 1
\* groups and names together in a rule structure handed to add_rule in SpecData
MaxDataSize == 3
\* names in a list handed to add_rule_condition_group in SpecData
MaxDataList == 1
\* length of a list of symptom names, and of a list of such lists, handed to the
\* operations of SpecStore
MaxStoreList == 2

(* Program constants *)

\* potential_diagnoses[:5]
TOP_N == 5
\* BOOST_VALUE = 10
BOOST_VALUE == 10

(* Names.  Symptom descriptions in the order in which they were inserted    *)
(* (symptom_id = position), and the order SQLite's ORDER BY s.description   *)
(* gives them (BINARY collation: bytewise).                                 *)
SymptomNames == <<"fever", "cough", "rash">>
ScenarioNames == <<"fever", "cough", "rash", "chills">>
DescriptionOrder == <<"chills", "cough", "fever", "rash">>
DiseaseNames == <<"D1", "D2", "D3", "D4", "D5", "D6", "D7", "D8">>

Range(s) == {s[i] : i \in DOMAIN s}
IndexOf(s, x) == CHOOSE i \in DOMAIN s : s[i] = x
Min(a, b) == IF a < b THEN a ELSE b

----------------------------------------------------------------------------
(* Accessors of HeartDiagnosisDB *)

\* _execute_query that lets the accessor read on after execute raised sqlite3.Error
CursorReturned_IgnoresError == conn = "open"

\* _execute_query hands out the cursor: there is a connection and execute raised no
\* sqlite3.Error; otherwise it returns None and the accessor answers [] or None
CursorReturned == conn = "open" /\ query_error # "execute"

\* "cursor.fetchall() if cursor else []" outside any try: an error of the fetch leaves
\* the accessor as an exception
FetchRaises == conn = "open" /\ query_error = "fetch"

\* SELECT disease_id, name, description FROM diseases: a table scan, in rowid order
RECURSIVE RowidOrder(_)
RowidOrder(rows) ==
    IF rows = {} THEN <<>>
    ELSE LET first == CHOOSE r \in rows : \A o \in rows : r.disease_id <= o.disease_id
         IN  <<first>> \o RowidOrder(rows \ {first})

\* cursor.fetchall() if cursor else []
get_all_diseases == IF CursorReturned THEN RowidOrder(diseases) ELSE <<>>

\* fetchone() of SELECT disease_id FROM diseases WHERE name = ?; 0 stands for None
\* (AUTOINCREMENT ids start at 1)
get_disease_id(name) ==
    IF CursorReturned /\ \E d \in diseases : d.name = name
    THEN (CHOOSE d \in diseases : d.name = name).disease_id
    ELSE 0

\* the rows (cg.group_id, s.description) of
\* rules r JOIN condition_groups cg JOIN condition_group_symptoms cgs JOIN symptoms s
\* WHERE r.disease_id = ?  (inner joins: a group without links gives no row)
JoinRows(disease_id) ==
    UNION { UNION { { <<cg.group_id, s.description>> :
                        s \in { x \in symptoms :
                                  \E cgs \in condition_group_symptoms :
                                      /\ cgs.group_id = cg.group_id
                                      /\ cgs.symptom_id = x.symptom_id } } :
                    cg \in { x \in condition_groups : x.rule_id = r.rule_id } } :
            r \in { x \in rules : x.disease_id = disease_id } }

\* ORDER BY cg.group_id, s.description
DescriptionRank(description) == IndexOf(DescriptionOrder, description)

RowBefore(a, b) ==
    \/ a[1] < b[1]
    \/ a[1] = b[1] /\ DescriptionRank(a[2]) < DescriptionRank(b[2])

RECURSIVE OrderRows(_)
OrderRows(rows) ==
    IF rows = {} THEN <<>>
    ELSE LET first == CHOOSE r \in rows : \A o \in rows \ {r} : RowBefore(r, o)
         IN  <<first>> \o OrderRows(rows \ {first})

\* one turn of the loop "for group_id, symptom_desc in results" (current_group_id 0: None)
ReconstructStep(st, row) ==
    IF row[1] # st.current_group_id
    THEN [ rule_structure |->
               IF st.current_group_symptoms # <<>>
               THEN Append(st.rule_structure, st.current_group_symptoms)
               ELSE st.rule_structure,
           current_group_id |-> row[1],
           current_group_symptoms |-> <<row[2]>> ]
    ELSE [ st EXCEPT !.current_group_symptoms = Append(@, row[2]) ]

RECURSIVE ReconstructLoop(_, _)
ReconstructLoop(st, results) ==
    IF results = <<>> THEN st
    ELSE ReconstructLoop(ReconstructStep(st, Head(results)), Tail(results))

\* "if not results: return []", the loop, and the last group
ReconstructRules(results) ==
    IF results = <<>> THEN <<>>
    ELSE LET st == ReconstructLoop(
                      [ rule_structure |-> <<>>,
                        current_group_id |-> 0,
                        current_group_symptoms |-> <<>> ],
                      results)
         IN  IF st.current_group_symptoms # <<>>
             THEN Append(st.rule_structure, st.current_group_symptoms)
             ELSE st.rule_structure

\* the keys of a set in ascending order
RECURSIVE Ascending(_)
Ascending(keys) ==
    IF keys = {} THEN <<>>
    ELSE LET least == CHOOSE k \in keys : \A o \in keys : k <= o
         IN  <<least>> \o Ascending(keys \ {least})

\* get_rules_for_disease reading the rows of condition_groups one by one and the
\* symptoms of each, instead of the one query over the four joined tables
get_rules_for_disease_GroupByGroup(disease_name) ==
    LET disease_id == get_disease_id(disease_name)
        group_ids == Ascending({ cg.group_id : cg \in { x \in condition_groups :
                         \E r \in rules : r.disease_id = disease_id /\ r.rule_id = x.rule_id } })
        GroupOf(group_id) ==
            LET results == OrderRows({ row \in JoinRows(disease_id) : row[1] = group_id })
            IN  [ k \in 1..Len(results) |-> results[k][2] ]
    IN  IF disease_id = 0 THEN <<>>
        ELSE [ g \in 1..Len(group_ids) |-> GroupOf(group_ids[g]) ]

\* get_rules_for_disease: a sequence of groups, each a sequence of descriptions
get_rules_for_disease(disease_name) ==
    LET disease_id == get_disease_id(disease_name)
    IN  IF disease_id = 0 THEN <<>>
        ELSE ReconstructRules(IF CursorReturned THEN OrderRows(JoinRows(disease_id)) ELSE <<>>)

----------------------------------------------------------------------------
(* diagnose_from_symptoms, phase 1: potential diagnoses and scores *)

\* matched_count without the test "if symptom in reported_symptoms_set"
matched_count_All(condition_group, reported) == Len(condition_group)

\* the inner loop "for symptom in condition_group: if symptom in reported_symptoms_set"
RECURSIVE matched_count(_, _)
matched_count(condition_group, reported) ==
    IF condition_group = <<>> THEN 0
    ELSE (IF Head(condition_group) \in reported THEN 1 ELSE 0)
         + matched_count(Tail(condition_group), reported)

\* BestGroupStep with "matched_count >= max": a later group with an equal count replaces the best
BestGroupStep_LastTie(best, condition_group, reported) ==
    IF condition_group = <<>> THEN best
    ELSE LET matched == matched_count(condition_group, reported)
         IN  IF matched >= best.max_matched_symptoms_in_any_group
             THEN [ max_matched_symptoms_in_any_group |-> matched,
                    best_matching_group_size |-> Len(condition_group) ]
             ELSE best

\* BestGroupStep that records the size only of the first group that matched
BestGroupStep_FirstSize(best, condition_group, reported) ==
    IF condition_group = <<>> THEN best
    ELSE LET matched == matched_count(condition_group, reported)
         IN  IF matched > best.max_matched_symptoms_in_any_group
             THEN [ max_matched_symptoms_in_any_group |-> matched,
                    best_matching_group_size |->
                        IF best.best_matching_group_size = 0
                        THEN Len(condition_group)
                        ELSE best.best_matching_group_size ]
             ELSE best

\* one turn of "for condition_group in rules"; best is
\* [max_matched_symptoms_in_any_group, best_matching_group_size]
BestGroupStep(best, condition_group, reported) ==
    IF condition_group = <<>> THEN best
    ELSE LET matched == matched_count(condition_group, reported)
         IN  IF matched > best.max_matched_symptoms_in_any_group
             THEN [ max_matched_symptoms_in_any_group |-> matched,
                    best_matching_group_size |-> Len(condition_group) ]
             ELSE best

RECURSIVE BestGroupLoop(_, _, _)
BestGroupLoop(best, rule_structure, reported) ==
    IF rule_structure = <<>> THEN best
    ELSE BestGroupLoop(BestGroupStep(best, Head(rule_structure), reported),
                       Tail(rule_structure), reported)

BestGroup(rule_structure, reported) ==
    BestGroupLoop([ max_matched_symptoms_in_any_group |-> 0,
                    best_matching_group_size |-> 0 ],
                  rule_structure, reported)

\* Round2 that cuts the digits after the second decimal instead of rounding
Round2_Truncate(matched, size) == (10000 * matched) \div size

\* round((matched / size) * 100, 2) in hundredths.  Python rounds the double to the
\* nearest hundredth; a double that lies exactly half-way goes to the even one.
Round2(matched, size) ==
    LET q == (10000 * matched) \div size
        r == (10000 * matched) % size
    IN  IF 2 * r < size THEN q
        ELSE IF 2 * r > size THEN q + 1
        ELSE IF q % 2 = 0 THEN q ELSE q + 1

\* score = (max / size) * 100 if size > 0 else 0; round(score, 2)
Score(best) ==
    IF best.best_matching_group_size > 0
    THEN Round2(best.max_matched_symptoms_in_any_group, best.best_matching_group_size)
    ELSE 0

\* DiagnoseDisease without the test "max_matched_symptoms_in_any_group > 0"
DiagnoseDisease_NoOverlapTest(found, disease_name, reported) ==
    LET rule_structure == get_rules_for_disease(disease_name)
    IN  IF rule_structure = <<>> THEN found
        ELSE Append(found, [ name |-> disease_name,
                             score |-> Score(BestGroup(rule_structure, reported)) ])

\* the body of "for disease_id, disease_name, description in diseases" after the
\* accessor handed out the disease's rules
ScoreDisease(found, disease_name, rule_structure, reported) ==
    IF rule_structure = <<>> THEN found
    ELSE LET best == BestGroup(rule_structure, reported)
         IN  IF best.max_matched_symptoms_in_any_group > 0
             THEN Append(found, [ name |-> disease_name, score |-> Score(best) ])
             ELSE found

\* the body of "for disease_id, disease_name, description in diseases"
DiagnoseDisease(found, disease_name, reported) ==
    ScoreDisease(found, disease_name, get_rules_for_disease(disease_name), reported)

RECURSIVE DiagnoseLoop(_, _, _)
DiagnoseLoop(found, rows, reported) ==
    IF rows = <<>> THEN found
    ELSE DiagnoseLoop(DiagnoseDisease(found, Head(rows).name, reported),
                      Tail(rows), reported)

\* InsertByScore of a sort without reverse=True: ascending
InsertByScore_Ascending(sorted, x) ==
    LET k == Cardinality({ i \in DOMAIN sorted : sorted[i].score <= x.score })
    IN  SubSeq(sorted, 1, k) \o <<x>> \o SubSeq(sorted, k + 1, Len(sorted))

\* InsertByScore of a sort that is not stable: an entry goes before its equals
InsertByScore_BeforeEqual(sorted, x) ==
    LET k == Cardinality({ i \in DOMAIN sorted : sorted[i].score > x.score })
    IN  SubSeq(sorted, 1, k) \o <<x>> \o SubSeq(sorted, k + 1, Len(sorted))

\* list.sort(key=lambda x: x['score'], reverse=True): stable, equal scores keep their order
InsertByScore(sorted, x) ==
    LET k == Cardinality({ i \in DOMAIN sorted : sorted[i].score >= x.score })
    IN  SubSeq(sorted, 1, k) \o <<x>> \o SubSeq(sorted, k + 1, Len(sorted))

RECURSIVE SortLoop(_, _)
SortLoop(sorted, rest) ==
    IF rest = <<>> THEN sorted
    ELSE SortLoop(InsertByScore(sorted, Head(rest)), Tail(rest))

SortByScoreDescending(list) == SortLoop(<<>>, list)

\* a result list that lives on from one call to the next (a module-level list)
FreshDiagnoses_KeptAcrossCalls == potential_diagnoses

\* "potential_diagnoses = []": a local list, new in every call
FreshDiagnoses == <<>>

Phase1(reported) ==
    SortByScoreDescending(DiagnoseLoop(FreshDiagnoses, get_all_diseases, reported))

----------------------------------------------------------------------------
(* diagnose_from_symptoms, phase 2: predicted symptoms of the top diseases *)

\* TopDiseases without the slice: every diagnosis contributes
TopDiseases_All(diagnoses) == diagnoses

\* top_n_diseases = potential_diagnoses[:5]
TopDiseases(diagnoses) == SubSeq(diagnoses, 1, Min(TOP_N, Len(diagnoses)))

\* TopDiseaseSymptoms that collects the groups of every top disease, not of the first
TopDiseaseSymptoms_EveryTopDisease(top_n_diseases) ==
    UNION { LET top_disease_rules == get_rules_for_disease(top_n_diseases[k].name)
            IN  UNION { Range(top_disease_rules[i]) : i \in DOMAIN top_disease_rules } :
            k \in DOMAIN top_n_diseases }

\* top_disease_symptoms_in_rules: the union of the groups of top_n_diseases[0]
TopDiseaseSymptoms(top_n_diseases) ==
    IF top_n_diseases = <<>> THEN {}
    ELSE LET top_disease_rules == get_rules_for_disease(top_n_diseases[1].name)
         IN  UNION { Range(top_disease_rules[i]) : i \in DOMAIN top_disease_rules }

\* Increment that assigns 1 instead of adding 1
Increment_NoAccumulate(counts, symptom) ==
    IF \E i \in DOMAIN counts : counts[i].symptom = symptom
    THEN counts
    ELSE Append(counts, [ symptom |-> symptom, count |-> 1 ])

\* Increment on a list of occurrences instead of a dict: one entry per occurrence
Increment_AlwaysAppend(counts, symptom) ==
    Append(counts, [ symptom |-> symptom, count |-> 1 ])

\* predicted_symptom_base_counts[symptom] += 1 on a defaultdict(int), which keeps its
\* keys in the order of their first insertion: a sequence of [symptom, count]
Increment(counts, symptom) ==
    IF \E i \in DOMAIN counts : counts[i].symptom = symptom
    THEN [ i \in DOMAIN counts |->
             IF counts[i].symptom = symptom
             THEN [ counts[i] EXCEPT !.count = @ + 1 ]
             ELSE counts[i] ]
    ELSE Append(counts, [ symptom |-> symptom, count |-> 1 ])

\* CountSymptom without the test "symptom not in reported_symptoms_set"
CountSymptom_NoFilter(counts, symptom, reported) == Increment(counts, symptom)

\* "if symptom not in reported_symptoms_set: predicted_symptom_base_counts[symptom] += 1"
CountSymptom(counts, symptom, reported) ==
    IF symptom \notin reported THEN Increment(counts, symptom) ELSE counts

\* "for symptom in condition_group"
RECURSIVE CountGroup(_, _, _)
CountGroup(counts, condition_group, reported) ==
    IF condition_group = <<>> THEN counts
    ELSE CountGroup(CountSymptom(counts, Head(condition_group), reported),
                    Tail(condition_group), reported)

\* "for condition_group in rules"
RECURSIVE CountRules(_, _, _)
CountRules(counts, rule_structure, reported) ==
    IF rule_structure = <<>> THEN counts
    ELSE CountRules(CountGroup(counts, Head(rule_structure), reported),
                    Tail(rule_structure), reported)

\* "for diagnosis in top_n_diseases"
RECURSIVE BaseCounts(_, _, _)
BaseCounts(counts, top_n_diseases, reported) ==
    IF top_n_diseases = <<>> THEN counts
    ELSE BaseCounts(CountRules(counts,
                               get_rules_for_disease(Head(top_n_diseases).name),
                               reported),
                    Tail(top_n_diseases), reported)

\* BoostedScore with the boost added inside the counting loop: once per occurrence
BoostedScore_PerOccurrence(symptom, base_count, top_disease_symptoms_in_rules) ==
    IF symptom \in top_disease_symptoms_in_rules
    THEN base_count + base_count * BOOST_VALUE
    ELSE base_count

\* predicted_symptom_scores[symptom] = base_count, += BOOST_VALUE if in the top disease's rules
BoostedScore(symptom, base_count, top_disease_symptoms_in_rules) ==
    IF symptom \in top_disease_symptoms_in_rules
    THEN base_count + BOOST_VALUE
    ELSE base_count

\* Phase2Counts over every disease of the store instead of the diagnoses found
Phase2Counts_AllDiseases(diagnoses, reported) ==
    BaseCounts(<<>>, get_all_diseases, reported)

\* the base counts of the top diseases ("if top_n_diseases:", else the dict stays empty)
Phase2Counts(diagnoses, reported) ==
    LET top_n_diseases == TopDiseases(diagnoses)
    IN  IF top_n_diseases # <<>>
        THEN BaseCounts(<<>>, top_n_diseases, reported)
        ELSE <<>>

\* predicted_symptom_scores, as a list sorted by score
SuggestionList(base_counts, top_disease_symptoms_in_rules) ==
    LET scores == [ i \in DOMAIN base_counts |->
                      [ symptom |-> base_counts[i].symptom,
                        score |-> BoostedScore(base_counts[i].symptom,
                                               base_counts[i].count,
                                               top_disease_symptoms_in_rules) ] ]
    IN  SortByScoreDescending(scores)

Phase2(diagnoses, base_counts) ==
    SuggestionList(base_counts, TopDiseaseSymptoms(TopDiseases(diagnoses)))

----------------------------------------------------------------------------
(* The call *)

\* set(reported_symptoms)
ToSet(reported_symptoms) == Range(reported_symptoms)

\* the lists a caller may report: any symptom names, in any order, repeated or not
ListsOver(names, n) == UNION { [1..k -> names] : k \in 0..n }

ListsUpTo(n) == ListsOver(Range(SymptomNames), n)

\* the finally clause with db.close() for every argument, also a caller's own object
ConnAfterCall_AlwaysClose(argument) == "none"

\* "finally: if db != db_path and db.conn: db.close()": the call closes only a
\* connection it opened itself (close() sets conn to None)
ConnAfterCall(argument) ==
    IF argument # "object" /\ conn = "open" THEN "none" ELSE conn

\* diagnose_from_symptoms(db_path, reported_symptoms)
Diagnose(reported_symptoms) ==
    /\ pc = "ready"
    /\ IF db_path = "missing"
       THEN \* "if not db_file_path.exists(): return None"
            /\ returned' = "None"
            /\ UNCHANGED <<conn, reported_symptoms_set, potential_diagnoses,
                           predicted_symptom_base_counts, predicted_symptoms_list>>
       ELSE IF conn = "none"
       THEN \* "if db.conn is None: return [], []"
            /\ returned' = "pair"
            /\ potential_diagnoses' = <<>>
            /\ predicted_symptoms_list' = <<>>
            /\ UNCHANGED <<conn, reported_symptoms_set, predicted_symptom_base_counts>>
       ELSE IF FetchRaises
       THEN \* db.get_all_diseases() raises: "except Exception: return [], []", then finally
            /\ returned' = "pair"
            /\ reported_symptoms_set' = ToSet(reported_symptoms)
            /\ potential_diagnoses' = <<>>
            /\ predicted_symptoms_list' = <<>>
            /\ conn' = ConnAfterCall(db_path)
            /\ UNCHANGED predicted_symptom_base_counts
       ELSE \* the try block, "return potential_diagnoses, predicted_symptoms_list"
            LET reported == ToSet(reported_symptoms)
                diagnoses == Phase1(reported)
                base_counts == Phase2Counts(diagnoses, reported)
            IN  /\ reported_symptoms_set' = reported
                /\ potential_diagnoses' = diagnoses
                /\ predicted_symptom_base_counts' = base_counts
                /\ predicted_symptoms_list' = Phase2(diagnoses, base_counts)
                /\ returned' = "pair"
                /\ conn' = ConnAfterCall(db_path)
    /\ pc' = "done"
    /\ UNCHANGED <<tables, best_group, rounded_score, db_path, query_error, returned_id,
                   in_transaction>>

\* the score expression of lines 1293-1297 alone, on the best group of one disease
ComputeScore ==
    /\ pc = "ready"
    /\ rounded_score' = Score(best_group)
    /\ pc' = "done"
    /\ UNCHANGED <<tables, reported_symptoms_set, potential_diagnoses,
                   predicted_symptom_base_counts, predicted_symptoms_list, best_group,
                   db_path, conn, query_error, returned, returned_id, in_transaction>>

----------------------------------------------------------------------------
(* Stores.  A store is described by the rule structure of each disease, a      *)
(* sequence of groups, each a set of symptom descriptions; an empty set is a   *)
(* condition_groups row that has lost its links (delete_symptom).              *)

\* rows a rule structure takes in condition_groups and condition_group_symptoms
RECURSIVE RowsOf(_)
RowsOf(structure) ==
    IF structure = <<>> THEN 0
    ELSE 1 + Cardinality(Head(structure)) + RowsOf(Tail(structure))

\* the rule structures that take at most n rows
RECURSIVE StructuresUpTo(_)
StructuresUpTo(n) ==
    { <<>> } \cup
    UNION { { <<g>> \o rest : rest \in StructuresUpTo(n - 1 - Cardinality(g)) } :
            g \in { x \in SUBSET Range(SymptomNames) : 1 + Cardinality(x) <= n } }

\* the stores of k diseases whose structures take at most n rows together
RECURSIVE StoresUpTo(_, _)
StoresUpTo(k, n) ==
    IF k = 0 THEN { <<>> }
    ELSE UNION { { Append(store, structure) : store \in StoresUpTo(k - 1, n - RowsOf(structure)) } :
                 structure \in StructuresUpTo(n) }

\* group ids are handed out disease by disease, group by group
RECURSIVE GroupsBefore(_, _)
GroupsBefore(store, d) ==
    IF d <= 1 THEN 0 ELSE Len(store[d - 1]) + GroupsBefore(store, d - 1)

\* one rules row per disease that has groups, numbered in the order of the diseases
RuleId(store, d) == Cardinality({ e \in 1..d : store[e] # <<>> })

\* the tables of a store whose symptoms were added in the order of names
\* (symptom_id = position), diseases and their rules one after the other
PopulatedWith(names, store) ==
    /\ diseases = { [ disease_id |-> d, name |-> DiseaseNames[d], description |-> "NULL" ] :
                    d \in DOMAIN store }
    /\ symptoms = { [ symptom_id |-> s, description |-> names[s], severity |-> 0 ] :
                    s \in DOMAIN names }
    /\ rules = { [ rule_id |-> RuleId(store, d), disease_id |-> d ] :
                 d \in { e \in DOMAIN store : store[e] # <<>> } }
    /\ condition_groups =
           UNION { { [ group_id |-> GroupsBefore(store, d) + g, rule_id |-> RuleId(store, d) ] :
                     g \in DOMAIN store[d] } : d \in DOMAIN store }
    /\ condition_group_symptoms =
           UNION { UNION { { [ group_id |-> GroupsBefore(store, d) + g,
                               symptom_id |-> IndexOf(names, s) ] : s \in store[d][g] } :
                           g \in DOMAIN store[d] } : d \in DOMAIN store }
    /\ disease_actions = { [ action_id |-> d, disease_id |-> d, action_text |-> "rest" ] :
                            d \in DOMAIN store }
    /\ sqlite_sequence = [ diseases |-> Len(store), symptoms |-> Len(names),
                           rules |-> RuleId(store, Len(store)),
                           condition_groups |-> GroupsBefore(store, Len(store) + 1),
                           disease_actions |-> Len(store) ]

Populated(store) == PopulatedWith(SymptomNames, store)

NoScore ==
    /\ best_group = [ max_matched_symptoms_in_any_group |-> 0, best_matching_group_size |-> 0 ]
    /\ rounded_score = 0

\* the caller hands over its open HeartDiagnosisDB, as gui.py does, and queries succeed
Available ==
    /\ db_path = "object"
    /\ conn = "open"
    /\ query_error = "none"

NotCalled ==
    /\ pc = "ready"
    /\ returned = "nothing"
    /\ returned_id = 0
    /\ in_transaction = FALSE
    /\ history = [ calls |-> 0,
                   first |-> [ reported_symptoms |-> <<>>, potential_diagnoses |-> <<>>,
                               predicted_symptoms_list |-> <<>> ],
                   last |-> <<>> ]
    /\ threads = <<>>
    /\ cursor = <<>>
    /\ reported_symptoms_set = {}
    /\ potential_diagnoses = <<>>
    /\ predicted_symptom_base_counts = <<>>
    /\ predicted_symptoms_list = <<>>

\* any store of at most MaxDiseases diseases and MaxRows group and link rows
Init ==
    /\ \E k \in 0..MaxDiseases : \E store \in StoresUpTo(k, MaxRows) : Populated(store)
    /\ Available
    /\ NotCalled
    /\ NoScore

Next ==
    \E reported_symptoms \in ListsUpTo(MaxReported) :
        Diagnose(reported_symptoms) /\ UNCHANGED <<history, threads, cursor>>

Spec == Init /\ [][Next]_vars

\* stores of many diseases, each with one condition group over fever and cough
TopStructures == { <<g>> : g \in (SUBSET {"fever", "cough"}) \ { {} } }

InitTop ==
    /\ \E k \in 0..MaxTopDiseases : \E store \in [1..k -> TopStructures] : Populated(store)
    /\ Available
    /\ NotCalled
    /\ NoScore

SpecTop == InitTop /\ [][Next]_vars

\* the score expression on every best group the loop can leave: 1 <= matched <= size
InitScore ==
    /\ Populated(<<>>)
    /\ Available
    /\ NotCalled
    /\ rounded_score = 0
    /\ \E size \in 1..MaxGroupSize : \E matched \in 1..size :
           best_group = [ max_matched_symptoms_in_any_group |-> matched,
                          best_matching_group_size |-> size ]

NextScore == ComputeScore /\ UNCHANGED <<history, threads, cursor>>

SpecScore == InitScore /\ [][NextScore]_vars

\* stores of two diseases whose condition groups are drawn, in any order and with
\* repetition, from [fever, cough], [rash] and [fever, chills]
ScenarioGroups == { {"fever", "cough"}, {"rash"}, {"fever", "chills"} }

ScenarioStructures == UNION { [1..k -> ScenarioGroups] : k \in 0..MaxScenarioGroups }

InitScenario ==
    /\ \E store \in [1..2 -> ScenarioStructures] : PopulatedWith(ScenarioNames, store)
    /\ Available
    /\ NotCalled
    /\ NoScore

NextScenario ==
    \E reported_symptoms \in ListsOver(Range(ScenarioNames), MaxReported) :
        Diagnose(reported_symptoms) /\ UNCHANGED <<history, threads, cursor>>

SpecScenario == InitScenario /\ [][NextScenario]_vars

\* every way of calling: with a HeartDiagnosisDB object or a path, on a file that is
\* there or not, with a connection that _connect established or not, and with queries
\* that succeed or raise sqlite3.Error in execute or in fetch.  For a path, conn is what _connect leaves in
\* the object the call constructs; without a file no object is constructed.
InitCall ==
    /\ \E k \in 0..MaxDiseases : \E store \in StoresUpTo(k, MaxCallRows) : Populated(store)
    /\ db_path \in {"object", "path", "missing"}
    /\ conn \in (IF db_path = "missing" THEN {"none"} ELSE {"open", "none"})
    /\ query_error \in {"none", "execute", "fetch"}
    /\ NotCalled
    /\ NoScore

SpecCall == InitCall /\ [][Next]_vars

\* several calls, one after the other, on the same open HeartDiagnosisDB: the
\* diagnosis tab calls again on every run of its script
InitCalls ==
    /\ \E store \in [1..2 -> TopStructures] : Populated(store)
    /\ Available
    /\ NotCalled
    /\ NoScore

\* a call, and what its caller keeps of it
Call(reported_symptoms) ==
    /\ history.calls < MaxCalls
    /\ Diagnose(reported_symptoms)
    /\ history' = [ calls |-> history.calls + 1,
                    first |-> IF history.calls = 0
                              THEN [ reported_symptoms |-> reported_symptoms,
                                     potential_diagnoses |-> potential_diagnoses',
                                     predicted_symptoms_list |-> predicted_symptoms_list' ]
                              ELSE history.first,
                    last |-> reported_symptoms ]
    /\ UNCHANGED <<threads, cursor>>

\* the caller comes back for another call; the lists of the last call are still around
Rerun ==
    /\ pc = "done"
    /\ pc' = "ready"
    /\ UNCHANGED <<tables, reported_symptoms_set, potential_diagnoses,
                   predicted_symptom_base_counts, predicted_symptoms_list,
                   best_group, rounded_score, db_path, conn, query_error, returned, returned_id,
                   in_transaction, history, threads, cursor>>

NextCalls ==
    \/ \E reported_symptoms \in ListsOver({"fever", "cough"}, MaxReported) :
           Call(reported_symptoms)
    \/ Rerun

SpecCalls == InitCalls /\ [][NextCalls]_vars

----------------------------------------------------------------------------
(* Calls that run at the same time.  init_db_connection is a cached resource:  *)
(* every session of the app gets the same HeartDiagnosisDB, opened with        *)
(* check_same_thread=False, and with it the same self.cursor.  A call is a     *)
(* sequence of queries; each query is two steps, cursor.execute in             *)
(* _execute_query and the fetch in the accessor, and the steps of two calls    *)
(* interleave.  What lies between two steps works on locals only.              *)

Threads == {1, 2}

\* the variables of the single call
single == <<pc, reported_symptoms_set, potential_diagnoses, predicted_symptom_base_counts,
            predicted_symptoms_list, best_group, rounded_score, db_path, conn,
            query_error, returned, returned_id, in_transaction, history>>

\* a thread about to enter diagnose_from_symptoms with its reported symptoms
Entering(reported) ==
    [ pc |-> "start", reported |-> reported, stage |-> "phase1", todo |-> <<>>,
      name |-> "", disease_id |-> 0, found |-> <<>>, diagnoses |-> <<>>,
      top_symptoms |-> {}, counts |-> <<>>, suggestions |-> <<>> ]

\* "return potential_diagnoses, predicted_symptoms_list"
Return(th, diagnoses, suggestions) ==
    [ Entering(th.reported) EXCEPT !.pc = "done", !.diagnoses = diagnoses,
                                   !.suggestions = suggestions ]

\* "except Exception as e: return [], []"
ReturnOnException(th) == Return(th, <<>>, <<>>)

\* the thread enters db.get_rules_for_disease(Head(todo)) from one of the three call sites
CallGetRules(th, stage, todo) ==
    [ th EXCEPT !.pc = "id_execute", !.stage = stage, !.todo = todo, !.name = Head(todo),
                !.disease_id = 0 ]

\* the thread's locals after get_rules_for_disease returned rule_structure to its
\* call site: the loop of phase 1, top_disease_rules, or the loop of phase 2
AfterGetRules(th, rule_structure) ==
    CASE th.stage = "phase1" ->
           LET found == ScoreDisease(th.found, th.name, rule_structure, th.reported)
               rest == Tail(th.todo)
           IN  IF rest # <<>>
               THEN CallGetRules([ th EXCEPT !.found = found ], "phase1", rest)
               ELSE LET diagnoses == SortByScoreDescending(found)
                        top_n_diseases == TopDiseases(diagnoses)
                    IN  IF top_n_diseases = <<>>
                        THEN Return(th, diagnoses, <<>>)
                        ELSE CallGetRules([ th EXCEPT !.found = <<>>, !.diagnoses = diagnoses ],
                                          "top", <<top_n_diseases[1].name>>)
      [] th.stage = "top" ->
           CallGetRules([ th EXCEPT !.top_symptoms =
                               UNION { Range(rule_structure[i]) : i \in DOMAIN rule_structure } ],
                        "phase2",
                        [ i \in DOMAIN TopDiseases(th.diagnoses) |-> TopDiseases(th.diagnoses)[i].name ])
      [] th.stage = "phase2" ->
           LET counts == CountRules(th.counts, rule_structure, th.reported)
               rest == Tail(th.todo)
           IN  IF rest # <<>>
               THEN CallGetRules([ th EXCEPT !.counts = counts ], "phase2", rest)
               ELSE Return(th, th.diagnoses, SuggestionList(counts, th.top_symptoms))

\* the rows of the three queries, as tuples of their columns
DiseaseRows == [ i \in DOMAIN get_all_diseases |->
                   <<get_all_diseases[i].disease_id, get_all_diseases[i].name, "">> ]

DiseaseIdRows(name) ==
    IF get_disease_id(name) = 0 THEN <<>> ELSE << <<get_disease_id(name)>> >>

RuleRows(disease_id) == OrderRows(JoinRows(disease_id))

\* _execute_query: self.cursor.execute(query, params) puts the query's rows into the
\* shared cursor, in place of what it held
ExecuteQuery(t) ==
    LET th == threads[t]
    IN  /\ th.pc \in {"start", "id_execute", "rules_execute"}
        /\ cursor' = CASE th.pc = "start" -> DiseaseRows
                        [] th.pc = "id_execute" -> DiseaseIdRows(th.name)
                        [] th.pc = "rules_execute" -> RuleRows(th.disease_id)
        /\ threads' = [ threads EXCEPT ![t].pc =
                           CASE th.pc = "start" -> "diseases_fetch"
                             [] th.pc = "id_execute" -> "id_fetch"
                             [] th.pc = "rules_execute" -> "rules_fetch" ]
        /\ UNCHANGED <<tables, single>>

\* get_all_diseases: cursor.fetchall(), then "for disease_id, disease_name, description
\* in diseases" up to its first call of get_rules_for_disease; a row that is no triple
\* raises ValueError
FetchDiseases(t) ==
    LET th == threads[t]
    IN  /\ th.pc = "diseases_fetch"
        /\ cursor' = <<>>
        /\ threads' = [ threads EXCEPT ![t] =
                           IF cursor = <<>> THEN Return(th, <<>>, <<>>)
                           ELSE IF Len(cursor[1]) # 3 THEN ReturnOnException(th)
                           ELSE CallGetRules(th, "phase1",
                                             [ i \in DOMAIN cursor |-> cursor[i][2] ]) ]
        /\ UNCHANGED <<tables, single>>

\* get_disease_id: cursor.fetchone() takes the next row, "result[0] if result else None";
\* on None get_rules_for_disease returns []
FetchDiseaseId(t) ==
    LET th == threads[t]
    IN  /\ th.pc = "id_fetch"
        /\ cursor' = IF cursor = <<>> THEN <<>> ELSE Tail(cursor)
        /\ threads' = [ threads EXCEPT ![t] =
                           IF cursor = <<>> THEN AfterGetRules(th, <<>>)
                           ELSE [ th EXCEPT !.pc = "rules_execute",
                                            !.disease_id = Head(cursor)[1] ] ]
        /\ UNCHANGED <<tables, single>>

\* get_rules_for_disease: cursor.fetchall(), then "for group_id, symptom_desc in
\* results"; a row that is no pair raises ValueError, which leaves the accessor
FetchRules(t) ==
    LET th == threads[t]
    IN  /\ th.pc = "rules_fetch"
        /\ cursor' = <<>>
        /\ threads' = [ threads EXCEPT ![t] =
                           IF cursor = <<>> THEN AfterGetRules(th, <<>>)
                           ELSE IF Len(cursor[1]) # 2 THEN ReturnOnException(th)
                           ELSE AfterGetRules(th, ReconstructRules(cursor)) ]
        /\ UNCHANGED <<tables, single>>

\* two sessions, each with a symptom selected, on a store of two diseases
InitThreads ==
    /\ \E store \in [1..2 -> TopStructures] : Populated(store)
    /\ Available
    /\ pc = "ready"
    /\ returned = "nothing"
    /\ returned_id = 0
    /\ in_transaction = FALSE
    /\ reported_symptoms_set = {}
    /\ potential_diagnoses = <<>>
    /\ predicted_symptom_base_counts = <<>>
    /\ predicted_symptoms_list = <<>>
    /\ history = [ calls |-> 0,
                   first |-> [ reported_symptoms |-> <<>>, potential_diagnoses |-> <<>>,
                               predicted_symptoms_list |-> <<>> ],
                   last |-> <<>> ]
    /\ NoScore
    /\ threads \in [ Threads -> { Entering({s}) : s \in {"fever", "cough"} } ]
    /\ cursor = <<>>

NextThreads ==
    \E t \in Threads :
        \/ ExecuteQuery(t)
        \/ FetchDiseases(t)
        \/ FetchDiseaseId(t)
        \/ FetchRules(t)

SpecThreads == InitThreads /\ [][NextThreads]_vars

----------------------------------------------------------------------------
(* Data management: the operations on diseases, symptoms and rules *)

\* the state of the calls of diagnose_from_symptoms, which the operations on the
\* store leave alone
diagnosis == <<pc, reported_symptoms_set, potential_diagnoses, predicted_symptom_base_counts,
               predicted_symptoms_list, best_group, rounded_score, db_path, conn,
               query_error, history, threads, cursor>>

\* cursor.lastrowid of an INSERT into a table with an AUTOINCREMENT key: one more
\* than the largest key the table ever handed out, whether that row is still there
\* or not
LastRowId(sequence, table) == sequence[table] + 1

\* get_symptom_id finding no row, whatever the table holds
get_symptom_id_NeverFound(description) == 0

\* fetchone() of SELECT symptom_id FROM symptoms WHERE description = ?; 0 stands for None
get_symptom_id(description) ==
    IF CursorReturned /\ \E s \in symptoms : s.description = description
    THEN (CHOOSE s \in symptoms : s.description = description).symptom_id
    ELSE 0

\* get_disease_actions(disease_name): the action texts of the disease's rows, as a set
get_disease_actions(disease_name) ==
    LET disease_id == get_disease_id(disease_name)
    IN  IF disease_id = 0 \/ ~CursorReturned THEN {}
        ELSE { a.action_text : a \in { x \in disease_actions : x.disease_id = disease_id } }

\* diseases without the UNIQUE constraint on name: no INSERT is ever refused
NameTaken_Never(name) == FALSE

\* name TEXT UNIQUE NOT NULL of diseases: an INSERT of a name that is there is refused
NameTaken(name) == \E d \in diseases : d.name = name

\* add_disease(name): INSERT OR IGNORE, then the id of the row of that name.  The
\* ignored INSERT on a name that exists still takes a key from the sequence.
add_disease(name) ==
    LET disease_id == LastRowId(sqlite_sequence, "diseases")
    IN  /\ conn = "open" /\ query_error = "none"
        /\ IF NameTaken(name)
           THEN /\ UNCHANGED diseases
                /\ returned_id' = get_disease_id(name)
           ELSE /\ diseases' = diseases \cup
                       { [ disease_id |-> disease_id, name |-> name, description |-> "NULL" ] }
                /\ returned_id' = disease_id
        /\ sqlite_sequence' = [ sqlite_sequence EXCEPT !.diseases = disease_id ]
        /\ returned' = "id"
        /\ in_transaction' = FALSE
        /\ UNCHANGED <<symptoms, rules, condition_groups, condition_group_symptoms,
                       disease_actions, diagnosis>>

\* add_disease_with_description(name, description): a plain INSERT on self.cursor;
\* the UNIQUE name fails it on a name that exists (IntegrityError: None; the
\* statement leaves no row behind, but the transaction the INSERT opened stays
\* open, as there is neither commit nor rollback on that path)
add_disease_with_description(name, description) ==
    LET disease_id == LastRowId(sqlite_sequence, "diseases")
    IN  /\ conn = "open" /\ query_error = "none"
        /\ IF NameTaken(name)
           THEN /\ returned' = "None"
                /\ returned_id' = 0
                /\ in_transaction' = TRUE
                /\ UNCHANGED <<diseases, sqlite_sequence>>
           ELSE /\ diseases' = diseases \cup
                       { [ disease_id |-> disease_id, name |-> name,
                           description |-> description ] }
                /\ sqlite_sequence' = [ sqlite_sequence EXCEPT !.diseases = disease_id ]
                /\ returned' = "id"
                /\ returned_id' = disease_id
                /\ in_transaction' = FALSE
        /\ UNCHANGED <<symptoms, rules, condition_groups, condition_group_symptoms,
                       disease_actions, diagnosis>>

\* the rows of symptoms after UPDATE symptoms SET severity = ? WHERE symptom_id = ?
\* of update_symptom_severity; a severity that int() refuses (-1 stands for a text
\* that is no number) leaves the rows alone
SeverityUpdated(symptom_id, severity) ==
    IF symptom_id = 0 \/ severity = -1 THEN symptoms
    ELSE { IF s.symptom_id = symptom_id THEN [ s EXCEPT !.severity = severity ] ELSE s :
           s \in symptoms }

\* update_symptom_severity(symptom_description, severity)
update_symptom_severity(symptom_description, severity) ==
    LET symptom_id == get_symptom_id(symptom_description)
    IN  /\ conn = "open" /\ query_error = "none"
        /\ symptoms' = SeverityUpdated(symptom_id, severity)
        /\ returned' = IF symptom_id = 0 \/ severity = -1 THEN "False" ELSE "True"
        /\ in_transaction' = (in_transaction /\ (symptom_id = 0 \/ severity = -1))
        /\ returned_id' = 0
        /\ UNCHANGED <<diseases, rules, condition_groups, condition_group_symptoms,
                       disease_actions, sqlite_sequence, diagnosis>>

\* add_symptom(description, severity): the id of the symptom of that description if
\* there is one (its severity updated unless severity is None), else a new row with
\* the severity as given
add_symptom(description, severity) ==
    LET existing == get_symptom_id(description)
        symptom_id == LastRowId(sqlite_sequence, "symptoms")
    IN  /\ conn = "open" /\ query_error = "none"
        /\ IF existing # 0
           THEN /\ symptoms' = IF severity # 0 THEN SeverityUpdated(existing, severity)
                               ELSE symptoms
                /\ returned_id' = existing
                /\ in_transaction' = (in_transaction /\ (severity = 0 \/ severity = -1))
                /\ UNCHANGED sqlite_sequence
           ELSE /\ symptoms' = symptoms \cup
                       { [ symptom_id |-> symptom_id, description |-> description,
                           severity |-> severity ] }
                /\ sqlite_sequence' = [ sqlite_sequence EXCEPT !.symptoms = symptom_id ]
                /\ returned_id' = symptom_id
                /\ in_transaction' = FALSE
        /\ returned' = "id"
        /\ UNCHANGED <<diseases, rules, condition_groups, condition_group_symptoms,
                       disease_actions, diagnosis>>

\* add_rule, "for condition_group_symptoms_desc in rule_structure": an empty group is
\* skipped; an unknown symptom ends the loop (ok = FALSE: rollback) after the row of
\* its group and the links of the symptoms before it were inserted; a symptom named
\* twice in a group gives one link (IntegrityError, for which _execute_query hands
\* out the cursor)
RECURSIVE InsertGroups(_, _, _)
InsertGroups(st, rule_id, rule_structure) ==
    IF rule_structure = <<>> \/ ~st.ok THEN st
    ELSE LET group == Head(rule_structure)
             group_id == LastRowId(st.sqlite_sequence, "condition_groups")
             unknown == { i \in DOMAIN group : get_symptom_id(group[i]) = 0 }
         IN  IF group = <<>> THEN InsertGroups(st, rule_id, Tail(rule_structure))
             ELSE IF unknown # {}
             THEN [ condition_groups |-> st.condition_groups \cup
                        { [ group_id |-> group_id, rule_id |-> rule_id ] },
                    condition_group_symptoms |-> st.condition_group_symptoms \cup
                        { [ group_id |-> group_id, symptom_id |-> get_symptom_id(group[i]) ] :
                          i \in { k \in DOMAIN group : \A u \in unknown : k < u } },
                    sqlite_sequence |->
                        [ st.sqlite_sequence EXCEPT !.condition_groups = group_id ],
                    ok |-> FALSE ]
             ELSE InsertGroups(
                      [ condition_groups |-> st.condition_groups \cup
                            { [ group_id |-> group_id, rule_id |-> rule_id ] },
                        condition_group_symptoms |-> st.condition_group_symptoms \cup
                            { [ group_id |-> group_id, symptom_id |-> get_symptom_id(group[i]) ] :
                              i \in DOMAIN group },
                        sqlite_sequence |->
                            [ st.sqlite_sequence EXCEPT !.condition_groups = group_id ],
                        ok |-> TRUE ],
                      rule_id, Tail(rule_structure))

\* the call without its rollbacks: what was inserted stays
RolledBack_Nothing(before, inserted) == inserted

\* self.conn.rollback(): the table as it was before the transaction, whatever was
\* inserted since
RolledBack(before, inserted) == before

\* add_rule(disease_name, rule_structure): BEGIN TRANSACTION (an sqlite3.Error if a
\* transaction is open already: rollback, False), always a new rules row, then the
\* groups; commit, or rollback of all of it
add_rule(disease_name, rule_structure) ==
    LET disease_id == get_disease_id(disease_name)
        rule_id == LastRowId(sqlite_sequence, "rules")
        st == InsertGroups([ condition_groups |-> condition_groups,
                             condition_group_symptoms |-> condition_group_symptoms,
                             sqlite_sequence |-> [ sqlite_sequence EXCEPT !.rules = rule_id ],
                             ok |-> TRUE ],
                           rule_id, rule_structure)
    IN  /\ IF disease_id = 0 \/ rule_structure = <<>>
           THEN /\ returned' = "False"
                /\ UNCHANGED <<rules, condition_groups, condition_group_symptoms,
                               sqlite_sequence, in_transaction>>
           ELSE IF in_transaction
           THEN /\ returned' = "False"
                /\ in_transaction' = FALSE
                /\ UNCHANGED <<rules, condition_groups, condition_group_symptoms,
                               sqlite_sequence>>
           ELSE IF ~st.ok
           THEN /\ returned' = "False"
                /\ in_transaction' = FALSE
                /\ rules' = RolledBack(rules, rules \cup
                                 { [ rule_id |-> rule_id, disease_id |-> disease_id ] })
                /\ condition_groups' = RolledBack(condition_groups, st.condition_groups)
                /\ condition_group_symptoms' =
                       RolledBack(condition_group_symptoms, st.condition_group_symptoms)
                /\ sqlite_sequence' = RolledBack(sqlite_sequence, st.sqlite_sequence)
           ELSE /\ returned' = "True"
                /\ in_transaction' = FALSE
                /\ rules' = rules \cup { [ rule_id |-> rule_id, disease_id |-> disease_id ] }
                /\ condition_groups' = st.condition_groups
                /\ condition_group_symptoms' = st.condition_group_symptoms
                /\ sqlite_sequence' = st.sqlite_sequence
        /\ returned_id' = 0
        /\ UNCHANGED <<diseases, symptoms, disease_actions, diagnosis>>

\* "for sym_name in symptom_names_in_group": the ids of the known symptoms, in the
\* order of the list, an unknown one skipped
RECURSIVE KnownSymptomIds(_)
KnownSymptomIds(symptom_names_in_group) ==
    IF symptom_names_in_group = <<>> THEN <<>>
    ELSE (IF get_symptom_id(Head(symptom_names_in_group)) = 0 THEN <<>>
          ELSE <<get_symptom_id(Head(symptom_names_in_group))>>)
         \o KnownSymptomIds(Tail(symptom_names_in_group))

\* add_rule_condition_group(disease_name, symptom_names_in_group):
\* get_or_create_rule_for_disease (the first rules row of the disease, else a new one,
\* committed), the condition_groups row (committed), then executemany of the links,
\* which a symptom named twice fails as a whole (IntegrityError: rollback of the links)
add_rule_condition_group(disease_name, symptom_names_in_group) ==
    LET disease_id == get_disease_id(disease_name)
        existing == { r.rule_id : r \in { x \in rules : x.disease_id = disease_id } }
        rule_id == IF existing # {}
                   THEN CHOOSE k \in existing : \A o \in existing : k <= o
                   ELSE LastRowId(sqlite_sequence, "rules")
        with_rule == IF existing # {} THEN sqlite_sequence
                     ELSE [ sqlite_sequence EXCEPT !.rules = rule_id ]
        symptom_ids_in_group == KnownSymptomIds(symptom_names_in_group)
        new_group_id == LastRowId(sqlite_sequence, "condition_groups")
        twice == \E i, j \in DOMAIN symptom_ids_in_group :
                     i # j /\ symptom_ids_in_group[i] = symptom_ids_in_group[j]
    IN  /\ IF disease_id = 0 \/ symptom_names_in_group = <<>>
           THEN /\ returned' = "None"
                /\ UNCHANGED <<rules, condition_groups, condition_group_symptoms,
                               sqlite_sequence, in_transaction>>
           ELSE /\ rules' = rules \cup { [ rule_id |-> rule_id, disease_id |-> disease_id ] }
                /\ IF symptom_ids_in_group = <<>>
                   THEN /\ returned' = "None"
                        /\ sqlite_sequence' = with_rule
                        /\ in_transaction' = (in_transaction /\ existing # {})
                        /\ UNCHANGED <<condition_groups, condition_group_symptoms>>
                   ELSE /\ condition_groups' = condition_groups \cup
                               { [ group_id |-> new_group_id, rule_id |-> rule_id ] }
                        /\ sqlite_sequence' =
                               [ with_rule EXCEPT !.condition_groups = new_group_id ]
                        /\ condition_group_symptoms' =
                               IF twice THEN condition_group_symptoms
                               ELSE condition_group_symptoms \cup
                                      { [ group_id |-> new_group_id,
                                          symptom_id |-> symptom_ids_in_group[i] ] :
                                        i \in DOMAIN symptom_ids_in_group }
                        /\ returned' = IF twice THEN "None" ELSE "group_id"
                        /\ in_transaction' = FALSE
        /\ returned_id' = 0
        /\ UNCHANGED <<diseases, symptoms, disease_actions, diagnosis>>

\* the links without PRAGMA foreign_keys = ON: the DELETE takes the symptoms row only
LinksWithoutSymptom_NoCascade(symptom_id) == condition_group_symptoms

\* the links if the DELETE took every link of a group that names the symptom
LinksWithoutSymptom_WholeGroups(symptom_id) ==
    { cgs \in condition_group_symptoms :
        \A o \in condition_group_symptoms :
            o.group_id = cgs.group_id => o.symptom_id # symptom_id }

\* ON DELETE CASCADE of condition_group_symptoms.symptom_id (PRAGMA foreign_keys = ON):
\* the links that stay when the symptoms row goes
LinksWithoutSymptom(symptom_id) ==
    { cgs \in condition_group_symptoms : cgs.symptom_id # symptom_id }

\* delete_symptom(symptom_description): DELETE FROM symptoms, and ON DELETE CASCADE
\* takes the symptom's rows of condition_group_symptoms; groups and rules stay
delete_symptom(symptom_description) ==
    LET symptom_id == get_symptom_id(symptom_description)
    IN  /\ IF symptom_id = 0
           THEN /\ returned' = "False"
                /\ UNCHANGED <<symptoms, condition_group_symptoms, in_transaction>>
           ELSE /\ returned' = "True"
                /\ in_transaction' = FALSE
                /\ symptoms' = { s \in symptoms : s.symptom_id # symptom_id }
                /\ condition_group_symptoms' = LinksWithoutSymptom(symptom_id)
        /\ returned_id' = 0
        /\ UNCHANGED <<diseases, rules, condition_groups, disease_actions, sqlite_sequence,
                       diagnosis>>

\* the rules without PRAGMA foreign_keys = ON: the DELETE takes the diseases row only
RulesWithoutDisease_NoCascade(disease_id) == rules

\* ON DELETE CASCADE of rules.disease_id (PRAGMA foreign_keys = ON): the rules rows
\* that stay when the diseases row goes
RulesWithoutDisease(disease_id) == { r \in rules : r.disease_id # disease_id }

\* delete_disease(disease_name): DELETE FROM diseases, and ON DELETE CASCADE takes the
\* disease's rules, their condition groups, the links of those, and the disease's
\* actions
delete_disease(disease_name) ==
    LET disease_id == get_disease_id(disease_name)
        kept_rules == RulesWithoutDisease(disease_id)
        kept_groups == { cg \in condition_groups :
                           \E r \in kept_rules : r.rule_id = cg.rule_id }
    IN  /\ IF disease_id = 0
           THEN /\ returned' = "False"
                /\ UNCHANGED <<diseases, rules, condition_groups, condition_group_symptoms,
                               disease_actions, in_transaction>>
           ELSE /\ returned' = "True"
                /\ in_transaction' = FALSE
                /\ diseases' = { d \in diseases : d.disease_id # disease_id }
                /\ rules' = kept_rules
                /\ condition_groups' = kept_groups
                /\ condition_group_symptoms' =
                       { cgs \in condition_group_symptoms :
                           \E cg \in kept_groups : cg.group_id = cgs.group_id }
                /\ disease_actions' =
                       { a \in disease_actions : a.disease_id # disease_id }
        /\ returned_id' = 0
        /\ UNCHANGED <<symptoms, sqlite_sequence, diagnosis>>

\* the names of SpecStore: two symptoms, two diseases, and a disease that is not there
StoreNames == <<"fever", "cough">>

StoreDiseases == {"D1", "D2", "D3"}

\* two diseases and two symptoms were added, no rule yet
InitStore ==
    /\ PopulatedWith(StoreNames, << <<>>, <<>> >>)
    /\ Available
    /\ NotCalled
    /\ NoScore

\* the rows an operation may add stay within the bounds of the model
WithinBounds ==
    /\ Cardinality(rules') <= MaxStoreRules
    /\ Cardinality(condition_groups') <= MaxStoreGroups

NextStore ==
    \/ \E disease_name \in StoreDiseases :
         \E rule_structure \in ListsOver(ListsOver(Range(StoreNames), MaxStoreList), MaxStoreList) :
           add_rule(disease_name, rule_structure) /\ WithinBounds
    \/ \E disease_name \in StoreDiseases :
         \E symptom_names_in_group \in ListsOver(Range(StoreNames), MaxStoreList) :
           add_rule_condition_group(disease_name, symptom_names_in_group) /\ WithinBounds
    \/ \E symptom_description \in Range(StoreNames) :
         delete_symptom(symptom_description)

SpecStore == InitStore /\ [][NextStore]_vars

\* the rule structures a caller may hand to add_rule: lists of lists of names, of at
\* most n groups and names together
RECURSIVE RuleStructures(_, _)
RuleStructures(names, n) ==
    IF n = 0 THEN { <<>> }
    ELSE { <<>> } \cup
         UNION { { <<group>> \o rest : rest \in RuleStructures(names, n - 1 - Len(group)) } :
                 group \in ListsOver(names, n - 1) }

\* SpecRules: rules are added and symptoms deleted in the store of SpecStore, the
\* rule structures measured by their groups and names together
RulesStructures == RuleStructures(Range(StoreNames), MaxRuleSize)

RulesLists == ListsOver(Range(StoreNames), MaxGroupList)

\* the diseases of the calls of SpecRules: one of the store, and one that is not there
RulesDiseases == {"D1", "D3"}

RowsWithinBounds ==
    /\ Cardinality(rules') <= MaxRuleRows
    /\ Cardinality(condition_groups') <= MaxGroupRows

NextRules ==
    \/ \E disease_name \in RulesDiseases :
         \E rule_structure \in RulesStructures :
           add_rule(disease_name, rule_structure) /\ RowsWithinBounds
    \/ \E disease_name \in RulesDiseases :
         \E symptom_names_in_group \in RulesLists :
           add_rule_condition_group(disease_name, symptom_names_in_group) /\ RowsWithinBounds
    \/ \E symptom_description \in Range(StoreNames) :
         delete_symptom(symptom_description)

SpecRules == InitStore /\ [][NextRules]_vars

\* the arguments of the calls of SpecData
DataStructures == RuleStructures(Range(StoreNames), MaxDataSize)

DataLists == ListsOver(Range(StoreNames), MaxDataList)

\* SpecData: symptoms are added and diseases deleted as well, in a store where the
\* second disease has a rule of one group already
DataStore == << <<>>, << {"fever", "cough"} >> >>

\* the diseases of the calls of SpecData: once deleted, a disease is not there
DataDiseases == { DiseaseNames[d] : d \in DOMAIN DataStore }

InitData ==
    /\ PopulatedWith(StoreNames, DataStore)
    /\ Available
    /\ NotCalled
    /\ NoScore

KeysWithinBounds ==
    /\ sqlite_sequence'.rules <= 1 + MaxDataRules
    /\ sqlite_sequence'.condition_groups <= 1 + MaxDataGroups
    /\ sqlite_sequence'.symptoms <= Len(StoreNames) + MaxDataAdded

NextData ==
    \/ \E disease_name \in DataDiseases :
         \E rule_structure \in DataStructures :
           add_rule(disease_name, rule_structure) /\ KeysWithinBounds
    \/ \E disease_name \in DataDiseases :
         \E symptom_names_in_group \in DataLists :
           add_rule_condition_group(disease_name, symptom_names_in_group) /\ KeysWithinBounds
    \/ \E symptom_description \in Range(StoreNames) :
         delete_symptom(symptom_description)
    \/ \E description \in Range(StoreNames) :
         add_symptom(description, 0) /\ KeysWithinBounds
    \/ \E disease_name \in DataDiseases :
         delete_disease(disease_name)

SpecData == InitData /\ [][NextData]_vars

\* SpecSymptoms: symptoms are added to a new database and their severities updated
\* severity as the caller hands it over: None (0), a number, or a text that is no
\* number (-1)
Severities == {-1} \cup 0..MaxSeverity

InitSymptoms ==
    /\ PopulatedWith(<<>>, <<>>)
    /\ Available
    /\ NotCalled
    /\ NoScore

NextSymptoms ==
    \/ \E description \in Range(StoreNames) : \E severity \in Severities :
         add_symptom(description, severity)
    \/ \E symptom_description \in Range(StoreNames) : \E severity \in Severities :
         update_symptom_severity(symptom_description, severity)

SpecSymptoms == InitSymptoms /\ [][NextSymptoms]_vars

\* SpecDiseases: diseases are added, with and without description, to a database
\* that has the symptoms of SpecStore, and rules are added to them
NamesOfDiseases == {"D1", "D2"}

Descriptions == {"heart", "lung"}

DiseasesStructures == RuleStructures(Range(StoreNames), MaxDiseaseSize)

InitDiseases ==
    /\ PopulatedWith(StoreNames, <<>>)
    /\ Available
    /\ NotCalled
    /\ NoScore

DiseasesWithinBounds ==
    /\ sqlite_sequence'.diseases <= MaxDiseaseKeys
    /\ sqlite_sequence'.rules <= MaxDiseaseRules

NextDiseases ==
    \/ \E name \in NamesOfDiseases :
         add_disease(name) /\ DiseasesWithinBounds
    \/ \E name \in NamesOfDiseases : \E description \in Descriptions :
         add_disease_with_description(name, description) /\ DiseasesWithinBounds
    \/ \E disease_name \in NamesOfDiseases : \E rule_structure \in DiseasesStructures :
         add_rule(disease_name, rule_structure) /\ DiseasesWithinBounds

SpecDiseases == InitDiseases /\ [][NextDiseases]_vars

----------------------------------------------------------------------------
(* Vocabulary of the properties *)

Done == pc = "done"

Abs(x) == IF x < 0 THEN -x ELSE x

\* |G /\ reported| of a group handed out by get_rules_for_disease
Overlap(condition_group) ==
    Cardinality(Range(condition_group) \cap reported_symptoms_set)

\* the largest overlap among the groups of a rule structure, 0 without groups
MaxOverlap(rule_structure) ==
    IF rule_structure = <<>> THEN 0
    ELSE CHOOSE m \in 0..Len(SymptomNames) :
           /\ \E g \in DOMAIN rule_structure : Overlap(rule_structure[g]) = m
           /\ \A g \in DOMAIN rule_structure : Overlap(rule_structure[g]) <= m

\* the first group, in the order of get_rules_for_disease, that reaches the largest overlap
FirstBestGroup(rule_structure) ==
    rule_structure[CHOOSE g \in DOMAIN rule_structure :
                       /\ Overlap(rule_structure[g]) = MaxOverlap(rule_structure)
                       /\ \A h \in 1..(g - 1) :
                              Overlap(rule_structure[h]) < MaxOverlap(rule_structure)]

\* s hundredths is a nearest hundredth to the percentage 100 * matched / size
NearestHundredth(s, matched, size) ==
    2 * Abs(s * size - 10000 * matched) <= size

\* the positions of the diagnosis list that contribute to the suggestions
FirstFive == 1..Min(5, Len(potential_diagnoses))

\* the number of pairs (disease at one of the positions, group of it) whose group holds the symptom
Occurrences(positions, symptom) ==
    Cardinality(UNION { LET rule_structure == get_rules_for_disease(potential_diagnoses[i].name)
                        IN  { <<i, g>> : g \in { h \in DOMAIN rule_structure :
                                                   symptom \in Range(rule_structure[h]) } } :
                        i \in positions })

\* the symptoms of all groups of the highest-ranked disease
TopRuleSymptoms ==
    IF potential_diagnoses = <<>> THEN {}
    ELSE LET top == get_rules_for_disease(potential_diagnoses[1].name)
         IN  UNION { Range(top[g]) : g \in DOMAIN top }

SuggestedSymptoms == { predicted_symptoms_list[i].symptom : i \in DOMAIN predicted_symptoms_list }

\* the base count the call kept for a symptom
BaseCountOf(symptom) ==
    (CHOOSE e \in Range(predicted_symptom_base_counts) : e.symptom = symptom).count

\* a disease row has a group that shares a symptom with the reported set (on the tables)
SharesSymptom(d) ==
    \E r \in rules, cg \in condition_groups, cgs \in condition_group_symptoms, s \in symptoms :
        /\ r.disease_id = d.disease_id
        /\ cg.rule_id = r.rule_id
        /\ cgs.group_id = cg.group_id
        /\ cgs.symptom_id = s.symptom_id
        /\ s.description \in reported_symptoms_set

----------------------------------------------------------------------------
(* Properties of diagnose_from_symptoms *)

\* C1: every disease with a group that overlaps the reported set is listed with the
\* score 100 * matched(G) / |G| of the FIRST group G, in the order of
\* get_rules_for_disease, that reaches the maximum matched count; a later group with
\* the same count never replaces it, whatever its size.
C1_FirstBestGroupScores ==
    Done =>
      \A d \in diseases :
        LET rule_structure == get_rules_for_disease(d.name)
        IN  MaxOverlap(rule_structure) > 0 =>
              /\ \E i \in DOMAIN potential_diagnoses : potential_diagnoses[i].name = d.name
              /\ \A i \in DOMAIN potential_diagnoses :
                   potential_diagnoses[i].name = d.name =>
                     NearestHundredth(potential_diagnoses[i].score,
                                      Overlap(FirstBestGroup(rule_structure)),
                                      Len(FirstBestGroup(rule_structure)))

\* a listed disease has two groups of different sizes that tie for the maximum matched count
C1_Witness ==
    /\ Done
    /\ \E i \in DOMAIN potential_diagnoses :
         LET rule_structure == get_rules_for_disease(potential_diagnoses[i].name)
         IN  \E g, h \in DOMAIN rule_structure :
               /\ g < h
               /\ Overlap(rule_structure[g]) = MaxOverlap(rule_structure)
               /\ Overlap(rule_structure[h]) = MaxOverlap(rule_structure)
               /\ Len(rule_structure[h]) < Len(rule_structure[g])

\* C2: every listed score s satisfies 0 < s <= 100, and the best group the loop leaves
\* has size >= matched count >= 1 whenever a score is computed from it (no division by 0).
C2_ScoreBounds ==
    Done =>
      /\ \A i \in DOMAIN potential_diagnoses :
           /\ potential_diagnoses[i].score > 0
           /\ potential_diagnoses[i].score <= 10000
      /\ \A d \in diseases :
           LET b == BestGroup(get_rules_for_disease(d.name), reported_symptoms_set)
           IN  b.max_matched_symptoms_in_any_group > 0 =>
                 /\ b.max_matched_symptoms_in_any_group >= 1
                 /\ b.best_matching_group_size >= b.max_matched_symptoms_in_any_group

\* one disease scores 100, another less, and the store holds a group without symptoms
C2_Witness ==
    /\ Done
    /\ \E i, j \in DOMAIN potential_diagnoses :
         /\ potential_diagnoses[i].score = 10000
         /\ potential_diagnoses[j].score < 10000
    /\ \E cg \in condition_groups :
         \A cgs \in condition_group_symptoms : cgs.group_id # cg.group_id

\* C3: a disease is listed iff one of its groups shares a symptom with the reported
\* set, and then exactly once; no rule, or no overlap in any group: never listed.
C3_ListedIffOverlap ==
    Done =>
      /\ \A d \in diseases :
           Cardinality({ i \in DOMAIN potential_diagnoses : potential_diagnoses[i].name = d.name })
             = IF SharesSymptom(d) THEN 1 ELSE 0
      /\ \A i \in DOMAIN potential_diagnoses :
           \E d \in diseases : d.name = potential_diagnoses[i].name

\* one disease is listed, another one has a non-empty group and is not listed
C3_Witness ==
    /\ Done
    /\ potential_diagnoses # <<>>
    /\ \E d \in diseases :
         /\ get_rules_for_disease(d.name) # <<>>
         /\ \A i \in DOMAIN potential_diagnoses : potential_diagnoses[i].name # d.name

\* C4: the score is 100 * matched / size rounded to 2 decimals: in hundredths a nearest
\* integer to 10000 * matched / size; 1 of 3 gives 33.33 and 2 of 3 gives 66.67.
C4_RoundedToHundredths ==
    Done =>
      /\ NearestHundredth(rounded_score,
                          best_group.max_matched_symptoms_in_any_group,
                          best_group.best_matching_group_size)
      /\ (best_group.best_matching_group_size = 3 =>
            rounded_score = CASE best_group.max_matched_symptoms_in_any_group = 1 -> 3333
                              [] best_group.max_matched_symptoms_in_any_group = 2 -> 6667
                              [] OTHER -> 10000)

\* 2 of 3 matched: the score rounds up to 66.67
C4_Witness ==
    /\ Done
    /\ best_group.max_matched_symptoms_in_any_group = 2
    /\ best_group.best_matching_group_size = 3
    /\ rounded_score = 6667

\* C5: no reported symptom is suggested, also not one of the top disease's rule.
C5_NoReportedSuggested ==
    Done =>
      \A i \in DOMAIN predicted_symptoms_list :
        predicted_symptoms_list[i].symptom \notin reported_symptoms_set

\* a reported symptom belongs to the top disease's rule, and something is suggested
C5_Witness ==
    /\ Done
    /\ predicted_symptoms_list # <<>>
    /\ reported_symptoms_set \cap TopRuleSymptoms # {}

\* C6: the score of a suggested symptom is its base count, plus 10 exactly once if the
\* symptom is in some group of the highest-ranked disease, however many groups hold it.
C6_BoostOnce ==
    Done =>
      \A i \in DOMAIN predicted_symptoms_list :
        LET e == predicted_symptoms_list[i]
        IN  /\ Cardinality({ k \in DOMAIN predicted_symptom_base_counts :
                               predicted_symptom_base_counts[k].symptom = e.symptom }) = 1
            /\ e.score = BaseCountOf(e.symptom)
                           + (IF e.symptom \in TopRuleSymptoms THEN 10 ELSE 0)

\* a symptom in 2 groups of the top disease and in no other listed disease scores 2 + 10
C6_Witness ==
    /\ Done
    /\ \E i \in DOMAIN predicted_symptoms_list :
         /\ Occurrences({1}, predicted_symptoms_list[i].symptom) = 2
         /\ Occurrences(FirstFive \ {1}, predicted_symptoms_list[i].symptom) = 0
         /\ predicted_symptoms_list[i].score = 12

\* C7: the base count of a symptom is the number of pairs (disease among the first five
\* diagnoses, group of that disease) whose group holds the symptom.
C7_BaseCountIsOccurrences ==
    Done =>
      \A k \in DOMAIN predicted_symptom_base_counts :
        predicted_symptom_base_counts[k].count
          = Occurrences(FirstFive, predicted_symptom_base_counts[k].symptom)

\* a base count of 2 that comes from groups of two different diseases
C7_Witness ==
    /\ Done
    /\ \E k \in DOMAIN predicted_symptom_base_counts :
         /\ predicted_symptom_base_counts[k].count = 2
         /\ \E i, j \in FirstFive :
              /\ i # j
              /\ Occurrences({i}, predicted_symptom_base_counts[k].symptom) = 1
              /\ Occurrences({j}, predicted_symptom_base_counts[k].symptom) = 1

\* C8: only the first five diagnoses contribute: every suggested symptom is in a group
\* of one of them, groups of diseases ranked sixth or lower add nothing to a count, and
\* with at most five diagnoses every unreported symptom of every listed disease is suggested.
C8_OnlyFirstFiveContribute ==
    Done =>
      /\ \A s \in SuggestedSymptoms : Occurrences(FirstFive, s) >= 1
      /\ \A k \in DOMAIN predicted_symptom_base_counts :
           predicted_symptom_base_counts[k].count
             = Occurrences(DOMAIN potential_diagnoses, predicted_symptom_base_counts[k].symptom)
               - Occurrences((DOMAIN potential_diagnoses) \ (1..5),
                             predicted_symptom_base_counts[k].symptom)
      /\ (Len(potential_diagnoses) <= 5 =>
            \A s \in Range(SymptomNames) \ reported_symptoms_set :
              Occurrences(DOMAIN potential_diagnoses, s) >= 1 => s \in SuggestedSymptoms)

\* six or more diagnoses, and an unreported symptom that only diseases ranked sixth or lower hold
C8_Witness ==
    /\ Done
    /\ Len(potential_diagnoses) >= 6
    /\ \E s \in Range(SymptomNames) \ reported_symptoms_set :
         /\ Occurrences((DOMAIN potential_diagnoses) \ (1..5), s) >= 1
         /\ Occurrences(1..5, s) = 0
         /\ s \notin SuggestedSymptoms

\* C9: the suggestion list holds, once each, exactly the unreported symptoms of the
\* groups of the first five diagnoses, each with a score >= 1.
C9_SuggestionsExact ==
    Done =>
      /\ SuggestedSymptoms
           = { s \in Range(SymptomNames) : Occurrences(FirstFive, s) >= 1 } \ reported_symptoms_set
      /\ Len(predicted_symptoms_list) = Cardinality(SuggestedSymptoms)
      /\ \A i \in DOMAIN predicted_symptoms_list : predicted_symptoms_list[i].score >= 1

\* two symptoms are suggested, one of them from two groups, and a reported one is left out
C9_Witness ==
    /\ Done
    /\ Len(predicted_symptoms_list) = 2
    /\ \E s \in SuggestedSymptoms : Occurrences(FirstFive, s) >= 2
    /\ \E s \in reported_symptoms_set : Occurrences(FirstFive, s) >= 1

\* C10: both returned lists are non-increasing in score.
C10_SortedByScore ==
    Done =>
      /\ \A i \in 1..(Len(potential_diagnoses) - 1) :
           potential_diagnoses[i].score >= potential_diagnoses[i + 1].score
      /\ \A i \in 1..(Len(predicted_symptoms_list) - 1) :
           predicted_symptoms_list[i].score >= predicted_symptoms_list[i + 1].score

\* the suggestions leave the dict in another order than the sorted one
C10_Witness ==
    /\ Done
    /\ Len(predicted_symptoms_list) >= 2
    /\ \E i \in DOMAIN predicted_symptoms_list :
         predicted_symptoms_list[i].symptom # predicted_symptom_base_counts[i].symptom

\* C11: a call with an empty reported collection returns normally, with an empty
\* diagnosis list and an empty suggestion list, whatever the store holds.
C11_EmptyReportGivesEmptyLists ==
    Done /\ reported_symptoms_set = {} =>
      /\ returned = "pair"
      /\ potential_diagnoses = <<>>
      /\ predicted_symptoms_list = <<>>

\* nothing was reported to a store in which a disease has a rule with a symptom
C11_Witness ==
    /\ Done
    /\ returned = "pair"
    /\ reported_symptoms_set = {}
    /\ \E d \in diseases : get_rules_for_disease(d.name) # <<>>

\* C12: whenever the diagnosis list is empty, no base count is kept, the suggestion
\* list is empty too, and the call returns normally.
C12_NoDiagnosisNoSuggestion ==
    Done /\ potential_diagnoses = <<>> =>
      /\ returned = "pair"
      /\ predicted_symptom_base_counts = <<>>
      /\ predicted_symptoms_list = <<>>

\* symptoms were reported, no disease matched them: one disease has no rule at all,
\* another one has a rule, all of whose symptoms are unreported
C12_Witness ==
    /\ Done
    /\ returned = "pair"
    /\ reported_symptoms_set # {}
    /\ potential_diagnoses = <<>>
    /\ \E d \in diseases : get_rules_for_disease(d.name) = <<>>
    /\ \E d \in diseases : get_rules_for_disease(d.name) # <<>>

\* C13: in the store where D1 has the groups [fever, cough] and [rash] and D2 has the
\* group [fever, chills], reporting fever and cough returns the diagnoses
\* D1 100.0, D2 50.0 and the suggestions rash 11, chills 1, in these orders.
C13_Scenario ==
    /\ Done
    /\ PopulatedWith(ScenarioNames, << <<{"fever", "cough"}, {"rash"}>>, <<{"fever", "chills"}>> >>)
    /\ reported_symptoms_set = {"fever", "cough"}
    => /\ returned = "pair"
       /\ potential_diagnoses = << [ name |-> "D1", score |-> 10000 ],
                                   [ name |-> "D2", score |-> 5000 ] >>
       /\ predicted_symptoms_list = << [ symptom |-> "rash", score |-> 11 ],
                                       [ symptom |-> "chills", score |-> 1 ] >>

\* the call was made on that store with fever and cough reported, and suggested two symptoms
C13_Witness ==
    /\ Done
    /\ get_rules_for_disease("D1") = << <<"cough", "fever">>, <<"rash">> >>
    /\ get_rules_for_disease("D2") = << <<"chills", "fever">> >>
    /\ reported_symptoms_set = {"fever", "cough"}
    /\ Len(potential_diagnoses) = 2
    /\ Len(predicted_symptoms_list) = 2

----------------------------------------------------------------------------
(* Properties of the call's return paths *)

\* the step of a call that ends
Returns == pc = "ready" /\ pc' = "done"

EmptyPair(kind, diagnoses, suggestions) ==
    kind = "pair" /\ diagnoses = <<>> /\ suggestions = <<>>

\* C14, first reading: when the connection is None or the queries fail inside the
\* accessor, the call signals a failure the caller can tell from the result of a
\* call that matched no disease; it never returns ([], []) then.
C14_FailureDistinguished ==
    [][Returns /\ (conn = "none" \/ query_error # "none")
         => ~EmptyPair(returned', potential_diagnoses', predicted_symptoms_list')]_vars

\* C14, second reading: when a HeartDiagnosisDB is at hand (passed, or constructed on an
\* existing file) and its connection is None or its queries fail inside
\* _execute_query, the call returns ([], []), the very value of a call that matched
\* no disease.
C14_FailureReturnsEmptyPair ==
    [][Returns /\ db_path # "missing" /\ (conn = "none" \/ query_error # "none")
         => EmptyPair(returned', potential_diagnoses', predicted_symptoms_list')]_vars

\* the queries failed on a store in which a disease shares a reported symptom, and the
\* call returned the two empty lists
C14_Witness ==
    /\ Done
    /\ db_path = "object"
    /\ conn = "open"
    /\ query_error = "execute"
    /\ \E d \in diseases : SharesSymptom(d)
    /\ EmptyPair(returned, potential_diagnoses, predicted_symptoms_list)

\* C15: the call always returns a pair of two lists, and on the error paths (file not
\* found, no connection, failing queries) the pair ([], []).
C15_AlwaysReturnsPair ==
    [][Returns =>
         /\ returned' = "pair"
         /\ (db_path = "missing" \/ conn = "none" \/ query_error # "none"
               => EmptyPair(returned', potential_diagnoses', predicted_symptoms_list'))]_vars

\* C16: a call leaves every table as it was, on every return path, and leaves the
\* connection of a HeartDiagnosisDB object handed in by the caller as it was: open
\* if it was open.
C16_ReadOnly ==
    [][Returns =>
         /\ tables' = tables
         /\ (db_path = "object" => conn' = conn)]_vars

\* a call on the caller's open object returned diagnoses from a store that holds
\* diseases, rules and actions, and the connection is open
C16_Witness ==
    /\ Done
    /\ db_path = "object"
    /\ conn = "open"
    /\ potential_diagnoses # <<>>
    /\ disease_actions # {}
    /\ condition_group_symptoms # {}

\* C17: the result depends only on the store and on the set of the reported names:
\* a call whose list holds the same elements as the list of the first call, in any
\* order and with any repetition, returns the first call's diagnosis list and
\* suggestion list, whatever calls were made in between.
C17_SameSetSameResult ==
    Done /\ history.calls >= 1
         /\ Range(history.last) = Range(history.first.reported_symptoms) =>
      /\ potential_diagnoses = history.first.potential_diagnoses
      /\ predicted_symptoms_list = history.first.predicted_symptoms_list

\* the third call got the elements of the first call's list as another list, and
\* returned diagnoses and suggestions
C17_Witness ==
    /\ Done
    /\ history.calls = 3
    /\ history.last # history.first.reported_symptoms
    /\ Range(history.last) = Range(history.first.reported_symptoms)
    /\ potential_diagnoses # <<>>
    /\ predicted_symptoms_list # <<>>

----------------------------------------------------------------------------
(* Properties of calls that run at the same time *)

\* the two lists a call with these reported symptoms returns when it runs alone
AloneDiagnoses(reported) == Phase1(reported)

AloneSuggestions(reported) ==
    Phase2(Phase1(reported), Phase2Counts(Phase1(reported), reported))

\* C18: of two calls that run at the same time on one HeartDiagnosisDB, each returns
\* the lists it returns when it runs alone, however their execute and fetch steps
\* interleave.
C18_ConcurrentAsAlone ==
    \A t \in DOMAIN threads :
      threads[t].pc = "done" =>
        /\ threads[t].diagnoses = AloneDiagnoses(threads[t].reported)
        /\ threads[t].suggestions = AloneSuggestions(threads[t].reported)

----------------------------------------------------------------------------
(* Properties of the store after data management *)

\* C19: every disease has at most one row in the table rules, whatever calls of
\* add_rule and add_rule_condition_group were made.
C19_OneRulePerDisease ==
    \A d \in diseases :
      Cardinality({ r \in rules : r.disease_id = d.disease_id }) <= 1

\* C20: get_rules_for_disease never hands out, for one disease, two condition groups
\* with the same set of symptoms, whatever calls of add_rule,
\* add_rule_condition_group and delete_symptom were made.
C20_NoEqualGroups ==
    \A d \in diseases :
      LET rule_structure == get_rules_for_disease(d.name)
      IN  \A g, h \in DOMAIN rule_structure :
            g # h => Range(rule_structure[g]) # Range(rule_structure[h])

----------------------------------------------------------------------------
(* Properties of the data management operations *)

\* a row of condition_groups that has no row of condition_group_symptoms
StoredEmptyGroup(cg) == \A cgs \in condition_group_symptoms : cgs.group_id # cg.group_id

\* C21: whatever the operations on the store have done, every group of every rule
\* structure get_rules_for_disease returns has a symptom; diagnose_from_symptoms
\* reads its rules from get_rules_for_disease only, so none of its groups is empty.
C21_NoEmptyGroupReturned ==
    \A disease_name \in Range(DiseaseNames) :
        \A g \in DOMAIN get_rules_for_disease(disease_name) :
            get_rules_for_disease(disease_name)[g] # <<>>

\* the store holds a group that lost its last symptom, in a rule of a disease whose
\* rule structure still has a group
C21_Witness ==
    \E d \in diseases : \E r \in rules : \E cg \in condition_groups :
        /\ r.disease_id = d.disease_id
        /\ cg.rule_id = r.rule_id
        /\ StoredEmptyGroup(cg)
        /\ get_rules_for_disease(d.name) # <<>>

\* C22: whatever add_symptom, add_rule, add_rule_condition_group, delete_symptom and
\* delete_disease have done, every row of condition_group_symptoms names a row of
\* symptoms, and every name in a group returned by get_rules_for_disease is the
\* description of a row of symptoms.
C22_GroupSymptomsExist ==
    /\ \A cgs \in condition_group_symptoms :
           \E s \in symptoms : s.symptom_id = cgs.symptom_id
    /\ \A disease_name \in Range(DiseaseNames) :
           \A g \in DOMAIN get_rules_for_disease(disease_name) :
               \A k \in DOMAIN get_rules_for_disease(disease_name)[g] :
                   \E s \in symptoms :
                       s.description = get_rules_for_disease(disease_name)[g][k]

\* a symptom was deleted and added again, and a rule added since names it by its
\* new id, next to a group from before the deletion
C22_Witness ==
    /\ \E cgs \in condition_group_symptoms : cgs.symptom_id > Len(StoreNames)
    /\ \E cgs \in condition_group_symptoms : cgs.symptom_id <= Len(StoreNames)
    /\ \E d \in diseases : get_rules_for_disease(d.name) # <<>>

\* C23: a delete_disease(d) that returns True leaves d out of get_all_diseases, makes
\* get_rules_for_disease(d) and get_disease_actions(d) empty, and leaves no row of
\* rules, condition_groups, condition_group_symptoms or disease_actions that
\* belonged to d.
C23_DeletedDiseaseIsGone ==
    [][\A disease_name \in DataDiseases :
         (returned' = "True" /\ delete_disease(disease_name))
         => LET disease_id == get_disease_id(disease_name)
                its_rules == { r.rule_id : r \in { x \in rules : x.disease_id = disease_id } }
                its_groups == { cg.group_id :
                                cg \in { x \in condition_groups : x.rule_id \in its_rules } }
            IN  /\ \A i \in DOMAIN get_all_diseases' : get_all_diseases'[i].name # disease_name
                /\ get_rules_for_disease(disease_name)' = <<>>
                /\ get_disease_actions(disease_name)' = {}
                /\ \A r \in rules' : r.disease_id # disease_id /\ r.rule_id \notin its_rules
                /\ \A cg \in condition_groups' :
                       cg.rule_id \notin its_rules /\ cg.group_id \notin its_groups
                /\ \A cgs \in condition_group_symptoms' : cgs.group_id \notin its_groups
                /\ \A a \in disease_actions' : a.disease_id # disease_id]_vars

\* the second disease, which had a rule, a group with links and an action, was
\* deleted, and the first disease still has the rule added to it and its action
C23_Witness ==
    /\ returned = "True"
    /\ \A d \in diseases : d.name # DiseaseNames[Len(DataStore)]
    /\ \E d \in diseases :
           /\ get_rules_for_disease(d.name) # <<>>
           /\ get_disease_actions(d.name) # {}
    /\ \A r \in rules : r.rule_id # 1

\* a group without the symptom s
GroupWithout(group, s) == SelectSeq(group, LAMBDA x : x # s)

\* a rule structure with s taken out of every group, the groups that had s alone left out
RECURSIVE StructureWithout(_, _)
StructureWithout(rule_structure, s) ==
    IF rule_structure = <<>> THEN <<>>
    ELSE (IF GroupWithout(Head(rule_structure), s) = <<>> THEN <<>>
          ELSE << GroupWithout(Head(rule_structure), s) >>)
         \o StructureWithout(Tail(rule_structure), s)

\* C24: a delete_symptom(s) that finds s takes the links of s and nothing else: every
\* row of condition_groups is still there, and get_rules_for_disease returns each
\* group G as G without s if that is non-empty, a group that did not name s as it
\* was, in the same order.
C24_DeleteSymptomKeepsGroups ==
    [][\A symptom_description \in Range(StoreNames) :
         (returned' = "True" /\ delete_symptom(symptom_description))
         => /\ condition_groups' = condition_groups
            /\ rules' = rules
            /\ condition_group_symptoms' \subseteq condition_group_symptoms
            /\ \A disease_name \in Range(DiseaseNames) :
                   get_rules_for_disease(disease_name)' =
                       StructureWithout(get_rules_for_disease(disease_name),
                                        symptom_description)]_vars

\* fever was deleted: of the two groups of the first disease one is stored without
\* a link and the other is returned as [cough]
C24_Witness ==
    /\ returned = "True"
    /\ \A s \in symptoms : s.description # "fever"
    /\ get_rules_for_disease("D1") = << <<"cough">> >>
    /\ \E cg \in condition_groups : StoredEmptyGroup(cg)
    /\ Cardinality(condition_groups) = MaxGroupRows

\* C25: whatever add_symptom and update_symptom_severity have done, no two rows of
\* symptoms have the same description; an add_symptom on a description that is
\* there adds no row and returns the id of the row that has it.
C25_OneSymptomPerDescription ==
    /\ [](\A a, b \in symptoms : a.description = b.description => a = b)
    /\ [][\A description \in Range(StoreNames) : \A severity \in Severities :
            (add_symptom(description, severity)
             /\ \E s \in symptoms : s.description = description)
            => /\ { s.symptom_id : s \in symptoms' } = { s.symptom_id : s \in symptoms }
               /\ returned' = "id"
               /\ \E s \in symptoms :
                      s.description = description /\ returned_id' = s.symptom_id]_vars

\* with two symptoms stored, add_symptom was called on the description of the first
\* one and returned its id
C25_Witness ==
    /\ Cardinality(symptoms) = 2
    /\ returned = "id"
    /\ returned_id = 1

\* C26: whatever add_disease and add_disease_with_description have done, no two rows
\* of diseases have the same name; add_disease on a name that is there returns the
\* id of its row and adds none, and add_disease_with_description on such a name
\* returns None and changes no table, the description of that row included.
C26_OneDiseasePerName ==
    /\ [](\A a, b \in diseases : a.name = b.name => a = b)
    /\ [][/\ \A name \in NamesOfDiseases :
               (add_disease(name) /\ \E d \in diseases : d.name = name)
               => /\ diseases' = diseases
                  /\ returned' = "id"
                  /\ \E d \in diseases : d.name = name /\ returned_id' = d.disease_id
          /\ \A name \in NamesOfDiseases : \A description \in Descriptions :
               (add_disease_with_description(name, description)
                /\ \E d \in diseases : d.name = name)
               => /\ returned' = "None"
                  /\ UNCHANGED tables]_vars

\* add_disease_with_description was refused on the name of a disease that has a
\* description, next to a disease that add_disease added
C26_Witness ==
    /\ returned = "None"
    /\ in_transaction
    /\ \E d \in diseases : d.description # "NULL"
    /\ \E d \in diseases : d.description = "NULL"

\* the disease is stored and has no rule, and R is a list of non-empty groups of
\* stored symptoms
RuleCanBeAdded(disease_name, R) ==
    /\ get_disease_id(disease_name) # 0
    /\ \A r \in rules : r.disease_id # get_disease_id(disease_name)
    /\ R # <<>>
    /\ \A g \in DOMAIN R :
           R[g] # <<>> /\ \A k \in DOMAIN R[g] : get_symptom_id(R[g][k]) # 0

\* the rule structure has the groups of R, in the order of R, each with the symptoms
\* of its group of R
SameGroups(rule_structure, R) ==
    /\ Len(rule_structure) = Len(R)
    /\ \A g \in DOMAIN R : ToSet(rule_structure[g]) = ToSet(R[g])

\* C27: add_rule on a stored disease without rule, with a structure R of non-empty
\* groups of stored symptoms, returns True, and get_rules_for_disease then returns
\* the groups of R in their order, each with the symptoms of its group of R.
C27_RuleRoundTrip ==
    [][\A disease_name \in Range(DiseaseNames) : \A R \in RulesStructures :
         (add_rule(disease_name, R) /\ RuleCanBeAdded(disease_name, R))
         => /\ returned' = "True"
            /\ SameGroups(get_rules_for_disease(disease_name)', R)]_vars

\* the step adds no row of rules, condition_groups or condition_group_symptoms, and
\* get_rules_for_disease returns for every disease what it returned before (as it
\* does at once if the step leaves alone all that the query reads)
NothingAdded ==
    \/ UNCHANGED <<diseases, symptoms, rules, condition_groups, condition_group_symptoms,
                   conn, query_error>>
    \/ /\ rules' \subseteq rules
       /\ condition_groups' \subseteq condition_groups
       /\ condition_group_symptoms' \subseteq condition_group_symptoms
       /\ \A name \in Range(DiseaseNames) :
              get_rules_for_disease(name)' = get_rules_for_disease(name)

\* C28: an add_rule that returns False leaves no row of rules, condition_groups or
\* condition_group_symptoms that was not there before, and get_rules_for_disease
\* returns for every disease what it returned before: every step adds nothing in
\* that sense, unless it is no add_rule that returns False.
C28_AddRuleAllOrNothing ==
    [][\/ returned' # "False"
       \/ NothingAdded
       \/ ~ \E disease_name \in RulesDiseases : \E rule_structure \in RulesStructures :
               add_rule(disease_name, rule_structure)]_vars

\* a call was refused on a store where a symptom is missing and the first disease
\* has a rule with a group
C28_Witness ==
    /\ returned = "False"
    /\ Cardinality(symptoms) < Len(StoreNames)
    /\ get_rules_for_disease("D1") # <<>>
    /\ sqlite_sequence.rules = Cardinality(rules)
    /\ sqlite_sequence.condition_groups = Cardinality(condition_groups)

----------------------------------------------------------------------------
(* Further properties of diagnose_from_symptoms *)

\* the position of a disease in the enumeration of get_all_diseases
Enumerated(name) == CHOOSE i \in DOMAIN get_all_diseases : get_all_diseases[i].name = name

\* the first disease, in the enumeration of get_all_diseases, among the listed ones
\* with the highest score
FirstOfHighest ==
    CHOOSE i \in DOMAIN potential_diagnoses :
        \A j \in DOMAIN potential_diagnoses \ {i} :
            \/ potential_diagnoses[j].score < potential_diagnoses[i].score
            \/ /\ potential_diagnoses[j].score = potential_diagnoses[i].score
               /\ Enumerated(potential_diagnoses[i].name) <
                      Enumerated(potential_diagnoses[j].name)

\* the symptoms of all groups of a disease
RuleSymptomsOf(name) ==
    UNION { Range(get_rules_for_disease(name)[g]) : g \in DOMAIN get_rules_for_disease(name) }

\* C29: listed diseases of equal score stand in the order in which get_all_diseases
\* enumerated them; the top disease is the first enumerated one among those of the
\* highest score, and a suggestion has the boost exactly if it is a rule symptom of
\* that disease.
C29_TiesKeepEnumerationOrder ==
    Done =>
      /\ \A i, j \in DOMAIN potential_diagnoses :
             (i < j /\ potential_diagnoses[i].score = potential_diagnoses[j].score)
             => Enumerated(potential_diagnoses[i].name) < Enumerated(potential_diagnoses[j].name)
      /\ potential_diagnoses # <<>> =>
             /\ FirstOfHighest = 1
             /\ \A k \in DOMAIN predicted_symptoms_list :
                    predicted_symptoms_list[k].score =
                        BaseCountOf(predicted_symptoms_list[k].symptom)
                        + (IF predicted_symptoms_list[k].symptom \in
                                  RuleSymptomsOf(potential_diagnoses[FirstOfHighest].name)
                           THEN BOOST_VALUE ELSE 0)

\* two diseases tie for the highest score; a suggestion from the rule of the first
\* enumerated one has the boost, a suggestion from the rule of the other has none
C29_Witness ==
    /\ Done
    /\ Len(potential_diagnoses) >= 2
    /\ potential_diagnoses[1].score = potential_diagnoses[2].score
    /\ \E k \in DOMAIN predicted_symptoms_list :
           /\ predicted_symptoms_list[k].symptom \in RuleSymptomsOf(potential_diagnoses[1].name)
           /\ predicted_symptoms_list[k].symptom \notin RuleSymptomsOf(potential_diagnoses[2].name)
    /\ \E k \in DOMAIN predicted_symptoms_list :
           /\ predicted_symptoms_list[k].symptom \in RuleSymptomsOf(potential_diagnoses[2].name)
           /\ predicted_symptoms_list[k].symptom \notin RuleSymptomsOf(potential_diagnoses[1].name)

====
